---- MODULE Spec2Model ----
(***************************************************************************)
(* String Analyzer API: the string-analysis functions, the record store,   *)
(* the filter evaluator, the natural-language query parser and the HTTP    *)
(* routing of src/main.py, src/services.py and src/models.py.              *)
(*                                                                         *)
(* A Python str is a sequence of one-character strings.                    *)
(***************************************************************************)
EXTENDS Integers, Sequences, FiniteSets, TLC

VARIABLES store, clock, resp, query, filters, result, pc, cpc, cresp

vars == <<store, clock, resp, query, filters, result, pc, cpc, cresp>>

(***************************************************************************)
(* Bounds                                                                  *)
(***************************************************************************)
MaxClock == 1
MaxPhrases == 2
NumClients == 3

(***************************************************************************)
(* Characters and Python str helpers                                       *)
(***************************************************************************)
LowerLetters == <<"a","b","c","d","e","f","g","h","i","j","k","l","m",
                  "n","o","p","q","r","s","t","u","v","w","x","y","z">>
UpperLetters == <<"A","B","C","D","E","F","G","H","I","J","K","L","M",
                  "N","O","P","Q","R","S","T","U","V","W","X","Y","Z">>
Digits == <<"0","1","2","3","4","5","6","7","8","9">>
Whitespace == {" ", "\t"}

Range(s) == {s[i] : i \in DOMAIN s}

IsLower(c) == c \in Range(LowerLetters)
IsUpper(c) == c \in Range(UpperLetters)
IsDigit(c) == c \in Range(Digits)

LowerChar(c) ==
    IF IsUpper(c)
    THEN LowerLetters[CHOOSE i \in DOMAIN UpperLetters : UpperLetters[i] = c]
    ELSE c

\* str.lower()
lower(text) == [i \in DOMAIN text |-> LowerChar(text[i])]

\* text[::-1]
Reverse(text) == [i \in DOMAIN text |-> text[Len(text) + 1 - i]]

StartsWithAt(s, i, pat) ==
    /\ i >= 1
    /\ i + Len(pat) - 1 <= Len(s)
    /\ SubSeq(s, i, i + Len(pat) - 1) = pat

\* Python `pat in s`
In(pat, s) == \E i \in 1..Len(s) : StartsWithAt(s, i, pat)

Min(S) == CHOOSE x \in S : \A y \in S : x <= y

\* Python dict: a function whose domain is the set of keys present
EmptyDict == [k \in {} |-> 0]
Put(d, k, v) == [x \in (DOMAIN d) \cup {k} |-> IF x = k THEN v ELSE d[x]]

(***************************************************************************)
(* String analysis functions, src/services.py 15-58                        *)
(***************************************************************************)
\* hashlib.sha256(...).hexdigest(): a collision-free digest of the text
compute_sha256(text) == <<"sha256", text>>

\* re.sub(r'[^a-zA-Z0-9]', '', text.lower()) == its reverse
is_palindrome(text) ==
    LET cleaned == SelectSeq(lower(text),
                             LAMBDA c : IsLower(c) \/ IsUpper(c) \/ IsDigit(c))
    IN  cleaned = Reverse(cleaned)

count_unique_characters(text) == Cardinality(Range(text))

\* len(text.split()): the number of maximal runs of non-whitespace
count_words(text) ==
    Cardinality({i \in DOMAIN text :
        /\ text[i] \notin Whitespace
        /\ (i = 1 \/ text[i - 1] \in Whitespace)})

character_frequency(text) ==
    [c \in Range(text) |-> Cardinality({i \in DOMAIN text : text[i] = c})]

analyze_string(value) ==
    LET sha256_hash == compute_sha256(value)
    IN  [id |-> sha256_hash,
         value |-> value,
         length |-> Len(value),
         is_palindrome |-> is_palindrome(value),
         unique_characters |-> count_unique_characters(value),
         word_count |-> count_words(value),
         sha256_hash |-> sha256_hash,
         character_frequency_map |-> character_frequency(value)]

(***************************************************************************)
(* Natural-language parser, src/services.py 123-166                        *)
(***************************************************************************)
S_palindrome == <<"p","a","l","i","n","d","r","o","m","e">>
S_palindromic == <<"p","a","l","i","n","d","r","o","m","i","c">>
S_single_word == <<"s","i","n","g","l","e"," ","w","o","r","d">>
S_two_word == <<"t","w","o"," ","w","o","r","d">>
S_2_word == <<"2"," ","w","o","r","d">>
S_longer_than == <<"l","o","n","g","e","r"," ","t","h","a","n"," ">>
S_shorter_than == <<"s","h","o","r","t","e","r"," ","t","h","a","n"," ">>
S_contain == <<"c","o","n","t","a","i","n">>
S_ing == <<"i","n","g">>
S_the == <<"t","h","e">>
S_letter == <<"l","e","t","t","e","r">>
S_first_vowel == <<"f","i","r","s","t"," ","v","o","w","e","l">>

\* int(digits)
RECURSIVE int(_)
int(d) ==
    IF d = <<>> THEN 0
    ELSE int(SubSeq(d, 1, Len(d) - 1)) * 10
         + ((CHOOSE i \in DOMAIN Digits : Digits[i] = d[Len(d)]) - 1)

\* the position after the maximal run of characters of class C starting at p
RunEnd(s, p, C) ==
    CHOOSE j \in p..(Len(s) + 1) :
        /\ \A k \in p..(j - 1) : s[k] \in C
        /\ (j = Len(s) + 1 \/ s[j] \notin C)

\* a match object of the number patterns whose group(1) starts at p: the
\* maximal digit run (\d+ is greedy and nothing follows it)
number_match(s, p) ==
    [matched |-> TRUE, group |-> SubSeq(s, p, RunEnd(s, p, Range(Digits)) - 1)]

NoMatch == [matched |-> FALSE, group |-> <<>>]

leftmost_number(prefix, s, at) ==
    IF at = {} THEN NoMatch ELSE number_match(s, Min(at) + Len(prefix))

\* re.search(prefix + r'(\d+)', s): the leftmost match
search_number(prefix, s) ==
    leftmost_number(prefix, s,
        {i \in 1..Len(s) :
            /\ StartsWithAt(s, i, prefix)
            /\ i + Len(prefix) <= Len(s)
            /\ IsDigit(s[i + Len(prefix)])})

\* \s+ tried at q: the position after the whitespace run, or 0. It takes the
\* whole run: after a shorter one the next character is whitespace, which no
\* later element of the pattern accepts.
AfterWs(s, q) ==
    IF q > 0 /\ RunEnd(s, q, Whitespace) > q
    THEN RunEnd(s, q, Whitespace)
    ELSE 0

\* one optional group `(?:word\s+)?` tried at p: the position after it, or 0
SkipWord(s, p, word) ==
    IF p > 0 /\ StartsWithAt(s, p, word)
    THEN AfterWs(s, p + Len(word))
    ELSE 0

\* the positions where ([a-z]) is tried after the whitespace ending at q, in
\* the order the regex engine tries them: both optional groups, `the` only,
\* `letter` only, neither
Tails(s, q) ==
    <<SkipWord(s, SkipWord(s, q, S_the), S_letter),
      SkipWord(s, q, S_the),
      SkipWord(s, q, S_letter),
      q>>

\* (?:s|ing)? tried at p: `s`, then `ing`, then nothing
Candidates(s, p) ==
    Tails(s, AfterWs(s, IF StartsWithAt(s, p, <<"s">>) THEN p + 1 ELSE 0))
    \o Tails(s, AfterWs(s, IF StartsWithAt(s, p, S_ing) THEN p + 3 ELSE 0))
    \o Tails(s, AfterWs(s, p))

\* the first candidate position that holds a character of [a-z], or 0
FirstLetter(s, cands) ==
    LET ok == {k \in DOMAIN cands :
                  /\ cands[k] > 0
                  /\ cands[k] <= Len(s)
                  /\ IsLower(s[cands[k]])}
    IN  IF ok = {} THEN 0 ELSE cands[Min(ok)]

\* contain(?:s|ing)?\s+(?:the\s+)?(?:letter\s+)?([a-z]) matched at i: the
\* position of group(1), or 0
contains_match_at(s, i) ==
    IF ~StartsWithAt(s, i, S_contain) THEN 0
    ELSE FirstLetter(s, Candidates(s, i + Len(S_contain)))

leftmost_contains(s, at) ==
    IF at = {} THEN NoMatch
    ELSE [matched |-> TRUE, group |-> <<s[contains_match_at(s, Min(at))]>>]

\* re.search(contains_pattern, s): the leftmost match
search_contains(s) ==
    leftmost_contains(s, {i \in 1..Len(s) : contains_match_at(s, i) > 0})

\* services.py 135-137
palindrome_rule(query_lower, f) ==
    IF In(S_palindrome, query_lower) \/ In(S_palindromic, query_lower)
    THEN Put(f, "is_palindrome", TRUE)
    ELSE f

\* both rules are tried and the later one overwrites
word_count_rule_Independent(query_lower, f) ==
    IF In(S_two_word, query_lower) \/ In(S_2_word, query_lower)
    THEN Put(f, "word_count", 2)
    ELSE IF In(S_single_word, query_lower) THEN Put(f, "word_count", 1)
    ELSE f

\* services.py 139-143
word_count_rule(query_lower, f) ==
    IF In(S_single_word, query_lower) THEN Put(f, "word_count", 1)
    ELSE IF In(S_two_word, query_lower) \/ In(S_2_word, query_lower)
         THEN Put(f, "word_count", 2)
         ELSE f

\* the bound is the literal itself
set_length_NoOffset(f, key, match, offset) ==
    IF match.matched THEN Put(f, key, int(match.group)) ELSE f

\* services.py 148-149 and 153-154: filters[key] = int(match.group(1)) + offset
set_length(f, key, match, offset) ==
    IF match.matched THEN Put(f, key, int(match.group) + offset) ELSE f

\* services.py 145-149
longer_rule(query_lower, f) ==
    set_length(f, "min_length", search_number(S_longer_than, query_lower), 1)

\* services.py 151-154
shorter_rule(query_lower, f) ==
    set_length(f, "max_length", search_number(S_shorter_than, query_lower), -1)

set_contains(f, match) ==
    IF match.matched THEN Put(f, "contains_character", match.group) ELSE f

\* services.py 156-160
contains_rule(query_lower, f) == set_contains(f, search_contains(query_lower))

\* services.py 162-164
first_vowel_rule(query_lower, f) ==
    IF In(S_first_vowel, query_lower)
    THEN Put(f, "contains_character", <<"a">>)
    ELSE f

\* the first-vowel rule is tried before the contains pattern
parse_natural_language_query_VowelFirst(q) ==
    LET query_lower == lower(q)
    IN  contains_rule(query_lower,
        first_vowel_rule(query_lower,
        shorter_rule(query_lower,
        longer_rule(query_lower,
        word_count_rule(query_lower,
        palindrome_rule(query_lower, EmptyDict))))))

parse_natural_language_query(q) ==
    LET query_lower == lower(q)
    IN  first_vowel_rule(query_lower,
        contains_rule(query_lower,
        shorter_rule(query_lower,
        longer_rule(query_lower,
        word_count_rule(query_lower,
        palindrome_rule(query_lower, EmptyDict))))))

(***************************************************************************)
(* The strings table, src/models.py 16-30, and the database operations,    *)
(* src/services.py 63-118. The table is the sequence of its rows in        *)
(* storage order. The database is PostgreSQL, src/config.py 15-18.         *)
(***************************************************************************)
None == [none |-> TRUE]

\* StringAnalysisDB(**analysis_data); created_at is the server default now()
StringAnalysisDB(analysis_data, now) ==
    [id |-> analysis_data.id,
     value |-> analysis_data.value,
     length |-> analysis_data.length,
     is_palindrome |-> analysis_data.is_palindrome,
     unique_characters |-> analysis_data.unique_characters,
     word_count |-> analysis_data.word_count,
     sha256_hash |-> analysis_data.sha256_hash,
     character_frequency_map |-> analysis_data.character_frequency_map,
     created_at |-> now]

\* the table has no primary key and no unique constraint
ConstraintViolated_Off(db, row) == FALSE

\* id is the primary key and value is unique: the INSERT is refused when a
\* row with the same id or the same value exists
ConstraintViolated(db, row) ==
    \E i \in DOMAIN db : db[i].id = row.id \/ db[i].value = row.value

\* db.add; db.commit; db.refresh. A refused INSERT raises IntegrityError.
create_string_analysis(db, analysis_data, now) ==
    LET db_string == StringAnalysisDB(analysis_data, now)
    IN  IF ConstraintViolated(db, db_string)
        THEN [raised |-> TRUE, db |-> db, db_string |-> None]
        ELSE [raised |-> FALSE, db |-> Append(db, db_string),
              db_string |-> db_string]

\* db.query(...).filter(value == value).first()
get_string_by_value(db, value) ==
    LET rows == SelectSeq(db, LAMBDA r : r.value = value)
    IN  IF rows = <<>> THEN None ELSE rows[1]

delete_string_by_value_AlwaysTrue(db, value) ==
    LET db_string == get_string_by_value(db, value)
    IN  [deleted |-> TRUE, db |-> SelectSeq(db, LAMBDA r : r # db_string)]

delete_string_by_value(db, value) ==
    LET db_string == get_string_by_value(db, value)
    IN  IF db_string # None
        THEN [deleted |-> TRUE, db |-> SelectSeq(db, LAMBDA r : r # db_string)]
        ELSE [deleted |-> FALSE, db |-> db]

\* SQL LIKE: % matches any run of characters, _ any one character, and any
\* other character itself, case-sensitively
RECURSIVE Like(_, _, _, _)
Like(s, i, pat, j) ==
    IF j > Len(pat) THEN i > Len(s)
    ELSE IF pat[j] = "%"
         THEN Like(s, i, pat, j + 1) \/ (i <= Len(s) /\ Like(s, i + 1, pat, j))
         ELSE /\ i <= Len(s)
              /\ (pat[j] = "_" \/ pat[j] = s[i])
              /\ Like(s, i + 1, pat, j + 1)

\* Column.contains(other): column LIKE '%' || other || '%', with no escaping
\* of the wildcards in other (autoescape is off)
contains(column, other) == Like(column, 1, <<"%">> \o other \o <<"%">>, 1)

FilterKeys ==
    <<"is_palindrome", "min_length", "max_length", "word_count",
      "contains_character">>

\* the predicate one `query.filter(...)` adds for keyword k of kwargs
Criterion(k, kwargs, r) ==
    CASE k = "is_palindrome" -> r.is_palindrome = kwargs[k]
      [] k = "min_length" -> r.length >= kwargs[k]
      [] k = "max_length" -> r.length <= kwargs[k]
      [] k = "word_count" -> r.word_count = kwargs[k]
      [] k = "contains_character" -> contains(r.value, kwargs[k])

\* query = query.filter(...) for each keyword that is not None, in the order
\* of `order`; query.all()
RECURSIVE apply_filters(_, _, _)
apply_filters(q, kwargs, order) ==
    IF order = <<>> THEN q
    ELSE LET k == Head(order)
             q1 == IF k \in DOMAIN kwargs
                   THEN SelectSeq(q, LAMBDA r : Criterion(k, kwargs, r))
                   ELSE q
         IN  apply_filters(q1, kwargs, Tail(order))

\* each filter replaces the query instead of narrowing it
RECURSIVE apply_filters_Replace(_, _, _, _)
apply_filters_Replace(db, q, kwargs, order) ==
    IF order = <<>> THEN q
    ELSE LET k == Head(order)
             q1 == IF k \in DOMAIN kwargs
                   THEN SelectSeq(db, LAMBDA r : Criterion(k, kwargs, r))
                   ELSE q
         IN  apply_filters_Replace(db, q1, kwargs, Tail(order))

get_all_strings_with_filters_Replace(db, kwargs) ==
    apply_filters_Replace(db, db, kwargs, FilterKeys)

get_all_strings_with_filters(db, kwargs) ==
    apply_filters(db, kwargs, FilterKeys)

(***************************************************************************)
(* HTTP layer, src/main.py 50-271                                          *)
(***************************************************************************)
S_strings == <<"s","t","r","i","n","g","s">>
S_filter_by_natural_language ==
    <<"f","i","l","t","e","r","-","b","y","-",
      "n","a","t","u","r","a","l","-","l","a","n","g","u","a","g","e">>

Lit(text) == [kind |-> "lit", text |-> text]
Param == [kind |-> "param", text |-> <<>>]

\* the route table in the order the decorators register the handlers
Routes ==
    <<[method |-> "GET", path |-> <<>>, endpoint |-> "root"],
      [method |-> "POST", path |-> <<Lit(S_strings)>>,
       endpoint |-> "create_string"],
      [method |-> "GET", path |-> <<Lit(S_strings), Param>>,
       endpoint |-> "get_string"],
      [method |-> "GET", path |-> <<Lit(S_strings)>>,
       endpoint |-> "get_all_strings"],
      [method |-> "GET",
       path |-> <<Lit(S_strings), Lit(S_filter_by_natural_language)>>,
       endpoint |-> "filter_by_natural_language"],
      [method |-> "DELETE", path |-> <<Lit(S_strings), Param>>,
       endpoint |-> "delete_string"]>>

\* a path parameter matches any non-empty segment
PathMatches(pattern, path) ==
    /\ Len(pattern) = Len(path)
    /\ \A i \in DOMAIN pattern :
          IF pattern[i].kind = "param" THEN path[i] # <<>>
          ELSE path[i] = pattern[i].text

\* the router serves the first route that matches path and method; a path
\* that matches only under another method is 405, no match is 404
Dispatch(r) ==
    LET full == {i \in DOMAIN Routes :
                    /\ PathMatches(Routes[i].path, r.path)
                    /\ Routes[i].method = r.method}
        partial == {i \in DOMAIN Routes : PathMatches(Routes[i].path, r.path)}
    IN  IF full # {} THEN Routes[Min(full)].endpoint
        ELSE IF partial # {} THEN "method_not_allowed"
        ELSE "not_found"

Request(method, path, params, body) ==
    [method |-> method, path |-> path, params |-> params, body |-> body]

Respond(r, handler, status, body) ==
    resp' = [request |-> r, handler |-> handler, status |-> status,
             body |-> body]

Detail(text) == [detail |-> text]

\* StringAnalysisResponse(id=..., value=..., properties=..., created_at=...)
StringAnalysisResponse(s) ==
    [id |-> s.id,
     value |-> s.value,
     properties |-> [length |-> s.length,
                     is_palindrome |-> s.is_palindrome,
                     unique_characters |-> s.unique_characters,
                     word_count |-> s.word_count,
                     sha256_hash |-> s.sha256_hash,
                     character_frequency_map |-> s.character_frequency_map],
     created_at |-> s.created_at]

ResponseList(strings) ==
    [i \in DOMAIN strings |-> StringAnalysisResponse(strings[i])]

root(r) ==
    /\ Respond(r, "root", 200, Detail("Welcome"))
    /\ UNCHANGED store

\* no existence check, and the row replaces the one already stored
create_string_Upsert(r) ==
    IF Len(r.body) < 1
    THEN Respond(r, "create_string", 422, Detail("validation")) /\ UNCHANGED store
    ELSE LET db_string == StringAnalysisDB(analyze_string(r.body), clock)
         IN  /\ store' = Append(SelectSeq(store,
                                    LAMBDA x : x.value # r.body), db_string)
             /\ Respond(r, "create_string", 201,
                        StringAnalysisResponse(db_string))

\* main.py 88-104; an IntegrityError of the commit is not caught: 500
create_response(r, created) ==
    IF created.raised
    THEN /\ Respond(r, "create_string", 500, Detail("IntegrityError"))
         /\ UNCHANGED store
    ELSE /\ store' = created.db
         /\ Respond(r, "create_string", 201,
                    StringAnalysisResponse(created.db_string))

create_string(r) ==
    IF Len(r.body) < 1
    THEN Respond(r, "create_string", 422, Detail("validation")) /\ UNCHANGED store
    ELSE IF get_string_by_value(store, r.body) # None
    THEN /\ Respond(r, "create_string", 409,
                    Detail("String already exists in the system"))
         /\ UNCHANGED store
    ELSE create_response(r, create_string_analysis(store,
                                analyze_string(r.body), clock))

get_string(r) ==
    LET db_string == get_string_by_value(store, r.path[2])
    IN  /\ IF db_string = None
           THEN Respond(r, "get_string", 404,
                        Detail("String does not exist in the system"))
           ELSE Respond(r, "get_string", 200, StringAnalysisResponse(db_string))
        /\ UNCHANGED store

\* Query(None, ge=0) and Query(None, min_length=1, max_length=1)
ValidListParams(params) ==
    /\ \A k \in {"min_length", "max_length", "word_count"} \cap DOMAIN params :
          params[k] >= 0
    /\ "contains_character" \in DOMAIN params
          => Len(params["contains_character"]) = 1

\* main.py 172-194
list_response(r, data) ==
    Respond(r, "get_all_strings", 200,
            [data |-> data, count |-> Len(data), filters_applied |-> r.params])

get_all_strings(r) ==
    /\ IF ~ValidListParams(r.params)
       THEN Respond(r, "get_all_strings", 422, Detail("validation"))
       ELSE list_response(r,
                ResponseList(get_all_strings_with_filters(store, r.params)))
    /\ UNCHANGED store

\* main.py 220-245
natural_language_response(r, parsed_filters, data) ==
    Respond(r, "filter_by_natural_language", 200,
            [data |-> data, count |-> Len(data),
             interpreted_query |-> [original |-> r.params["query"],
                                    parsed_filters |-> parsed_filters]])

\* main.py 211-218
apply_parsed_filters(r, parsed_filters) ==
    IF DOMAIN parsed_filters = {}
    THEN Respond(r, "filter_by_natural_language", 400,
                 Detail("Unable to parse natural language query"))
    ELSE natural_language_response(r, parsed_filters,
             ResponseList(get_all_strings_with_filters(store, parsed_filters)))

\* nothing in the try block raises here, so the 422 of `except Exception`
\* does not occur
filter_by_natural_language(r) ==
    /\ IF "query" \notin DOMAIN r.params
       THEN Respond(r, "filter_by_natural_language", 422, Detail("validation"))
       ELSE apply_parsed_filters(r,
                parse_natural_language_query(r.params["query"]))
    /\ UNCHANGED store

delete_string(r) ==
    LET done == delete_string_by_value(store, r.path[2])
    IN  /\ store' = done.db
        /\ IF ~done.deleted
           THEN Respond(r, "delete_string", 404,
                        Detail("String does not exist in the system"))
           ELSE Respond(r, "delete_string", 204, None)

\* the application serving one request
Serve(r) ==
    LET endpoint == Dispatch(r)
    IN  CASE endpoint = "root" -> root(r)
          [] endpoint = "create_string" -> create_string(r)
          [] endpoint = "get_string" -> get_string(r)
          [] endpoint = "get_all_strings" -> get_all_strings(r)
          [] endpoint = "filter_by_natural_language" ->
                 filter_by_natural_language(r)
          [] endpoint = "delete_string" -> delete_string(r)
          [] endpoint = "method_not_allowed" ->
                 Respond(r, endpoint, 405, Detail("Method Not Allowed"))
                 /\ UNCHANGED store
          [] OTHER ->
                 Respond(r, endpoint, 404, Detail("Not Found"))
                 /\ UNCHANGED store

(***************************************************************************)
(* Inputs                                                                  *)
(***************************************************************************)
V_z == <<"z">>
V_Z_a == <<"Z"," ","a">>

Values == {V_z, V_Z_a, S_filter_by_natural_language}

P_palindromic == S_palindromic
P_Single_Word == <<"S","i","n","g","l","e"," ","W","o","r","d">>
P_longer_than_0 == <<"l","o","n","g","e","r"," ","t","h","a","n"," ","0">>
P_longer_than_10 == <<"l","o","n","g","e","r"," ","t","h","a","n"," ","1","0">>
P_shorter_than_0 == <<"s","h","o","r","t","e","r"," ","t","h","a","n"," ","0">>
P_shorter_than_5 == <<"s","h","o","r","t","e","r"," ","t","h","a","n"," ","5">>
P_containing_the_letter_z ==
    <<"c","o","n","t","a","i","n","i","n","g"," ","t","h","e"," ",
      "l","e","t","t","e","r"," ","z">>
P_gibberish == <<"g","i","b","b","e","r","i","s","h">>

P_First_Vowel == <<"F","i","r","s","t"," ","V","o","w","e","l">>

Phrases ==
    <<P_palindromic, P_Single_Word, S_two_word, S_2_word, P_longer_than_0,
      P_longer_than_10, P_shorter_than_0, P_shorter_than_5,
      P_containing_the_letter_z, S_first_vowel, P_First_Vowel, P_gibberish>>

\* the phrases of ps joined by single spaces
RECURSIVE Join(_)
Join(ps) ==
    IF Len(ps) = 1 THEN Phrases[ps[1]]
    ELSE Phrases[ps[1]] \o <<" ">> \o Join(Tail(ps))

QueriesOf(n) == {Join(ps) : ps \in [1..n -> DOMAIN Phrases]}

Queries == UNION {QueriesOf(n) : n \in 1..MaxPhrases}

NLQueries == {P_gibberish, P_palindromic, P_shorter_than_0}

IsPalindromeChoices ==
    {EmptyDict, [is_palindrome |-> TRUE], [is_palindrome |-> FALSE]}
MinLengthChoices == {EmptyDict, [min_length |-> 2]}
MaxLengthChoices == {EmptyDict, [max_length |-> 3]}
WordCountChoices == {EmptyDict, [word_count |-> 2]}
ContainsChoices ==
    {EmptyDict} \cup
    {[contains_character |-> <<c>>] : c \in {"z", "Z", "_"}}

\* requests with no, one, two or all five filters
ValidParams ==
    {p \in {a @@ b @@ c @@ d @@ e :
                a \in IsPalindromeChoices, b \in MinLengthChoices,
                c \in MaxLengthChoices, d \in WordCountChoices,
                e \in ContainsChoices} :
        Cardinality(DOMAIN p) <= 2 \/ Cardinality(DOMAIN p) = 5}

InvalidParams ==
    {[min_length |-> -1], [contains_character |-> <<"z","a">>]}

(***************************************************************************)
(* The service: one step serves one request                                *)
(***************************************************************************)
Tick ==
    /\ clock < MaxClock
    /\ clock' = clock + 1
    /\ UNCHANGED <<store, resp, query, filters, result, pc, cpc, cresp>>

\* the variables no request changes
others == <<clock, query, filters, result, pc, cpc, cresp>>

GetRoot ==
    /\ Serve(Request("GET", <<>>, EmptyDict, None))
    /\ UNCHANGED others

PostStrings(v) ==
    /\ Serve(Request("POST", <<S_strings>>, EmptyDict, v))
    /\ UNCHANGED others

GetStringsValue(v) ==
    /\ Serve(Request("GET", <<S_strings, v>>, EmptyDict, None))
    /\ UNCHANGED others

GetStrings(params) ==
    /\ Serve(Request("GET", <<S_strings>>, params, None))
    /\ UNCHANGED others

GetNaturalLanguage(q) ==
    /\ Serve(Request("GET", <<S_strings, S_filter_by_natural_language>>,
                     [query |-> q], None))
    /\ UNCHANGED others

DeleteStringsValue(v) ==
    /\ Serve(Request("DELETE", <<S_strings, v>>, EmptyDict, None))
    /\ UNCHANGED others

DeleteStrings ==
    /\ Serve(Request("DELETE", <<S_strings>>, EmptyDict, None))
    /\ UNCHANGED others

Init ==
    /\ store = <<>>
    /\ clock = 0
    /\ resp = None
    /\ query = <<>>
    /\ filters = None
    /\ result = None
    /\ pc = "off"
    /\ cpc = <<>>
    /\ cresp = <<>>

Next ==
    \/ Tick
    \/ GetRoot
    \/ \E v \in Values \cup {<<>>} : PostStrings(v)
    \/ \E v \in Values : GetStringsValue(v)
    \/ \E p \in ValidParams \cup InvalidParams : GetStrings(p)
    \/ \E q \in NLQueries : GetNaturalLanguage(q)
    \/ \E v \in Values : DeleteStringsValue(v)
    \/ DeleteStrings

Spec == Init /\ [][Next]_vars

(***************************************************************************)
(* The parser and the evaluator as functions: parse a query, then apply    *)
(* the filters it yields to a table holding every sample value             *)
(***************************************************************************)
SampleStore ==
    <<StringAnalysisDB(analyze_string(V_z), 0),
      StringAnalysisDB(analyze_string(V_Z_a), 0),
      StringAnalysisDB(analyze_string(S_filter_by_natural_language), 0)>>

InitParse ==
    /\ store = SampleStore
    /\ clock = 0
    /\ resp = None
    /\ query \in Queries
    /\ filters = None
    /\ result = None
    /\ pc = "start"
    /\ cpc = <<>>
    /\ cresp = <<>>

Parse ==
    /\ pc = "start"
    /\ filters' = parse_natural_language_query(query)
    /\ pc' = "parsed"
    /\ UNCHANGED <<store, clock, resp, query, result, cpc, cresp>>

Evaluate ==
    /\ pc = "parsed"
    /\ result' = get_all_strings_with_filters(store, filters)
    /\ pc' = "evaluated"
    /\ UNCHANGED <<store, clock, resp, query, filters, cpc, cresp>>

\* the handler called with the query, as a test calls it, past the router
CallHandler ==
    /\ pc = "start"
    /\ filter_by_natural_language(
           Request("GET", <<S_strings, S_filter_by_natural_language>>,
                   [query |-> query], None))
    /\ pc' = "handled"
    /\ UNCHANGED <<clock, query, filters, result, cpc, cresp>>

NextParse == Parse \/ Evaluate \/ CallHandler

SpecParse == InitParse /\ [][NextParse]_vars

(***************************************************************************)
(* Concurrent POST /strings: workers sharing the database interleave       *)
(* between the existence check (main.py 78-83) and the commit (main.py     *)
(* 86-89, services.py 63-69)                                               *)
(***************************************************************************)
Clients == 1..NumClients

InitConc ==
    /\ store = <<>>
    /\ clock = 0
    /\ resp = None
    /\ query = <<>>
    /\ filters = None
    /\ result = None
    /\ pc = "off"
    /\ cpc = [c \in Clients |-> [at |-> "idle", value |-> <<>>]]
    /\ cresp = [c \in Clients |-> 0]

\* main.py 78-83
CheckExisting(c, v) ==
    /\ cpc[c].at = "idle"
    /\ IF get_string_by_value(store, v) # None
       THEN /\ cpc' = [cpc EXCEPT ![c] = [at |-> "done", value |-> v]]
            /\ cresp' = [cresp EXCEPT ![c] = 409]
       ELSE /\ cpc' = [cpc EXCEPT ![c] = [at |-> "checked", value |-> v]]
            /\ UNCHANGED cresp
    /\ UNCHANGED <<store, clock, resp, query, filters, result, pc>>

\* main.py 88-104
commit_result(c, created) ==
    /\ store' = created.db
    /\ cresp' = [cresp EXCEPT ![c] = IF created.raised THEN 500 ELSE 201]

\* main.py 86-89
CommitString(c) ==
    /\ cpc[c].at = "checked"
    /\ commit_result(c, create_string_analysis(store,
                            analyze_string(cpc[c].value), clock))
    /\ cpc' = [cpc EXCEPT ![c].at = "done"]
    /\ UNCHANGED <<clock, resp, query, filters, result, pc>>

NextConc ==
    \/ \E c \in Clients, v \in Values : CheckExisting(c, v)
    \/ \E c \in Clients : CommitString(c)

SpecConc == InitConc /\ [][NextConc]_vars

(***************************************************************************)
(* Properties                                                              *)
(***************************************************************************)
Present(v) == get_string_by_value(store, v) # None

IsResponseOf(handler, status) ==
    /\ resp # None
    /\ resp.handler = handler
    /\ resp.status = status

\* C1: no two stored records have the same value, and a create request for a
\* value that is already stored answers 409 and leaves the table as it was.
C1_CreateRejectsDuplicate ==
    [][/\ \A i, j \in DOMAIN store' :
             store'[i].value = store'[j].value => i = j
       /\ \A v \in Values :
             (PostStrings(v) /\ Present(v))
                 => (resp'.status = 409 /\ store' = store)]_vars

C1_Witness ==
    /\ IsResponseOf("create_string", 409)
    /\ Present(resp.request.body)
    /\ Len(store) >= 2

\* C3: with two or more filters, GET /strings returns exactly the records
\* that are in every single-filter result, in storage order, whatever the
\* order in which the filters are applied.
SingleFilter(params, k) == [x \in {k} |-> params[x]]

InEverySingleResult(params, r) ==
    \A k \in DOMAIN params :
        r \in Range(get_all_strings_with_filters(store, SingleFilter(params, k)))

FilterOrders ==
    {[i \in DOMAIN FilterKeys |-> FilterKeys[f[i]]] :
        f \in Permutations(DOMAIN FilterKeys)}

C3_FiltersIntersect ==
    (/\ IsResponseOf("get_all_strings", 200)
     /\ Cardinality(DOMAIN resp.request.params) >= 2)
    => /\ resp.body.data =
            ResponseList(SelectSeq(store,
                LAMBDA r : InEverySingleResult(resp.request.params, r)))
       /\ \A order \in FilterOrders :
            resp.body.data =
                ResponseList(apply_filters(store, resp.request.params, order))

C3_Witness ==
    /\ IsResponseOf("get_all_strings", 200)
    /\ Cardinality(DOMAIN resp.request.params) = 5
    /\ Len(resp.body.data) = 1
    /\ Len(store) = 3
    /\ Cardinality({k \in DOMAIN resp.request.params :
          Len(get_all_strings_with_filters(store,
                  SingleFilter(resp.request.params, k))) >= 2}) >= 3

\* C7: a step adds or removes at most one record, a record is added only by
\* a create request, a record that stays stored keeps every field, and a
\* delete of a value that is not stored answers 404 and changes nothing.
C7_RecordsImmutable ==
    [][/\ \A i \in DOMAIN store, j \in DOMAIN store' :
             store[i].value = store'[j].value => store[i] = store'[j]
       /\ Cardinality(Range(store') \ Range(store))
          + Cardinality(Range(store) \ Range(store')) <= 1
       /\ Range(store') \ Range(store) # {} => \E v \in Values : PostStrings(v)
       /\ \A v \in Values :
             (DeleteStringsValue(v) /\ ~Present(v))
                 => (resp'.status = 404 /\ store' = store)
       /\ \A v \in Values :
             (DeleteStringsValue(v) /\ Present(v))
                 => /\ resp'.status = 204
                    /\ store' = SelectSeq(store, LAMBDA r : r.value # v)]_vars

C7_Witness ==
    /\ IsResponseOf("delete_string", 404)
    /\ ~Present(resp.request.path[2])
    /\ \E i \in DOMAIN store : store[i].created_at < clock

IsNaturalLanguageRequest(r) ==
    /\ r.method = "GET"
    /\ r.path = <<S_strings, S_filter_by_natural_language>>
    /\ "query" \in DOMAIN r.params

\* C4: a natural-language request answers 400 when no rule matches, and
\* otherwise 200 with the matching records, the query and the filters.
C4_NaturalLanguageOutcomes ==
    (resp # None /\ IsNaturalLanguageRequest(resp.request))
    => IF DOMAIN parse_natural_language_query(resp.request.params["query"]) = {}
       THEN resp.status = 400
       ELSE /\ resp.status = 200
            /\ resp.handler = "filter_by_natural_language"
            /\ resp.body.data =
                 ResponseList(get_all_strings_with_filters(store,
                     parse_natural_language_query(resp.request.params["query"])))
            /\ resp.body.count = Len(resp.body.data)
            /\ resp.body.interpreted_query =
                 [original |-> resp.request.params["query"],
                  parsed_filters |->
                     parse_natural_language_query(resp.request.params["query"])]

\* C6: GET /strings?contains_character=c returns a record iff the character
\* c occurs in its value, exactly as written.
C6_ContainsIsLiteral ==
    (/\ IsResponseOf("get_all_strings", 200)
     /\ DOMAIN resp.request.params = {"contains_character"})
    => resp.body.data =
          ResponseList(SelectSeq(store,
              LAMBDA r : resp.request.params["contains_character"][1]
                             \in Range(r.value)))

\* C8: GET /strings/filter-by-natural-language?query=... is handled by
\* filter_by_natural_language.
C8_NaturalLanguageRoute ==
    (resp # None /\ IsNaturalLanguageRequest(resp.request))
    => resp.handler = "filter_by_natural_language"

\* the query has been parsed into filters
Parsed == pc \in {"parsed", "evaluated"}

BothWordRules ==
    /\ In(S_single_word, lower(query))
    /\ In(S_two_word, lower(query)) \/ In(S_2_word, lower(query))

\* C2 as stated: when the query matches the single-word rule and the
\* two-word rule, the later rule overwrites: word_count is 2.
C2_LaterRuleOverwrites ==
    (Parsed /\ BothWordRules)
    => ("word_count" \in DOMAIN filters /\ filters["word_count"] = 2)

\* C2 as amended: when the query matches the single-word rule and the
\* two-word rule, word_count is 1: the two-word rule is tried only when the
\* single-word rule does not match.
C2_SingleWordWins ==
    (Parsed /\ BothWordRules)
    => ("word_count" \in DOMAIN filters /\ filters["word_count"] = 1)

C2_Witness ==
    /\ pc = "evaluated"
    /\ BothWordRules
    /\ query # lower(query)
    /\ filters = [word_count |-> 1]
    /\ Len(result) = 2

\* the positions where `prefix` followed by an integer literal occurs in s
Occurrences(prefix, s) ==
    {i \in 1..Len(s) :
        /\ StartsWithAt(s, i, prefix)
        /\ i + Len(prefix) <= Len(s)
        /\ IsDigit(s[i + Len(prefix)])}

\* the integer literal that starts at p
LiteralAt(s, p) == int(SubSeq(s, p, RunEnd(s, p, Range(Digits)) - 1))

LiteralsAfter(prefix, s) ==
    {LiteralAt(s, i + Len(prefix)) : i \in Occurrences(prefix, s)}

FirstLiteralAfter(prefix, s) ==
    LiteralAt(s, Min(Occurrences(prefix, s)) + Len(prefix))

NegativeMaxMatchesNothing ==
    (/\ pc = "evaluated"
     /\ "max_length" \in DOMAIN filters
     /\ filters["max_length"] < 0)
    => result = <<>>

\* C5 as stated: for every literal N, a query containing "longer than N"
\* yields min_length = N + 1 and one containing "shorter than N" yields
\* max_length = N - 1, unvalidated; max_length = -1 matches no record.
C5_EveryLiteral ==
    Parsed
    => /\ \A n \in LiteralsAfter(S_longer_than, lower(query)) :
             "min_length" \in DOMAIN filters /\ filters["min_length"] = n + 1
       /\ \A n \in LiteralsAfter(S_shorter_than, lower(query)) :
             "max_length" \in DOMAIN filters /\ filters["max_length"] = n - 1
       /\ NegativeMaxMatchesNothing

\* C5 as amended: with N the literal of the leftmost "longer than N" of the
\* query, min_length = N + 1, and with N the literal of the leftmost
\* "shorter than N", max_length = N - 1, unvalidated; max_length = -1
\* matches no record.
C5_LeftmostLiteral ==
    Parsed
    => /\ Occurrences(S_longer_than, lower(query)) # {}
             => /\ "min_length" \in DOMAIN filters
                /\ filters["min_length"]
                       = FirstLiteralAfter(S_longer_than, lower(query)) + 1
       /\ Occurrences(S_shorter_than, lower(query)) # {}
             => /\ "max_length" \in DOMAIN filters
                /\ filters["max_length"]
                       = FirstLiteralAfter(S_shorter_than, lower(query)) - 1
       /\ NegativeMaxMatchesNothing

C5_Witness ==
    /\ pc = "evaluated"
    /\ query = P_longer_than_0 \o <<" ">> \o P_shorter_than_0
    /\ filters = [min_length |-> 1, max_length |-> -1]
    /\ result = <<>>

\* C9: whenever the query contains "first vowel", in any case, the filters
\* have contains_character = "a", also when the contains pattern captures
\* another letter.
C9_FirstVowelIsA ==
    (Parsed /\ In(S_first_vowel, lower(query)))
    => /\ "contains_character" \in DOMAIN filters
       /\ filters["contains_character"] = <<"a">>

C9_Witness ==
    /\ pc = "parsed"
    /\ query = P_containing_the_letter_z \o <<" ">> \o P_First_Vowel
    /\ search_contains(lower(query)).group = <<"z">>
    /\ filters = [contains_character |-> <<"a">>]

RecordsOf(v) == {i \in DOMAIN store : store[i].value = v}

CreatedBy(v) == {c \in Clients : cpc[c].value = v /\ cresp[c] = 201}

\* C10: under any interleaving of concurrent creates, each value is stored
\* at most once and at most one request for it answers 201 Created.
C10_OneCreatePerValue ==
    \A v \in Values :
        /\ Cardinality(RecordsOf(v)) <= 1
        /\ Cardinality(CreatedBy(v)) <= 1
        /\ Cardinality(CreatedBy(v)) = Cardinality(RecordsOf(v))

C10_Witness ==
    \E c, d \in Clients :
        /\ cpc[c].value = cpc[d].value
        /\ cresp[c] = 201
        /\ cresp[d] = 500
        /\ Cardinality(RecordsOf(cpc[c].value)) = 1

====
